---- MODULE Spec2Model ----
(***************************************************************************)
(* State-machine model of WebRTCManager (src/unnamed/part_000): the camera *)
(* source registry, the signaling socket, the per-source peer connections  *)
(* and stats timers, together with the console's updateCameraSettings      *)
(* caller (src/src/components/webrtc/WebRTCVisualizerPanel.tsx).            *)
(*                                                                         *)
(* All code runs on one event loop.  Every synchronous stretch of code     *)
(* (from a call or callback entry to the next await or to its end) is one  *)
(* action; a call suspended at an await is parked in `calls` and resumed   *)
(* by a separate action, so other callbacks interleave at awaits only.     *)
(***************************************************************************)
EXTENDS Integers, Sequences, FiniteSets, TLC

\* ------------------------------------------------------------- bounds
MaxTime == 1        \* Date.now() takes the values 0..MaxTime
MaxCalls == 2       \* async calls suspended at an await at the same time
MaxStreams == 3     \* MediaStreams ever opened
MaxPcs == 2         \* RTCPeerConnections ever constructed
MaxIntervals == 2   \* setInterval timers ever started
MaxSockets == 2     \* WebSockets ever constructed, in the runs with cameras
MaxChannelSockets == 7  \* WebSockets ever constructed, in the runs of the channel alone
MaxErrors == 1      \* ICE candidate errors counted per source
MaxCandidates == 1  \* remote ICE candidates handed to one peer connection

\* Input domains: device / session identifiers, display names, quality levels.
Keys == {"a"}
Names == {"n1", "n2"}
Qualities == {"medium", "high"}
LocalNames == {"n1"}          \* names given to addLocalCamera
LocalQualities == {"medium"}  \* its quality levels (the default)

\* ------------------------------------------------- program constants
CAMERA_CONSTRAINTS ==
  [low    |-> [width |-> 320,  height |-> 240,  fps |-> 15],
   medium |-> [width |-> 640,  height |-> 480,  fps |-> 30],
   high   |-> [width |-> 1280, height |-> 720,  fps |-> 30],
   ultra  |-> [width |-> 1920, height |-> 1080, fps |-> 30]]

autoReconnect == TRUE
maxReconnectAttempts == 5
BaseDelay == 2000

\* ------------------------------------------------------------- values
Kinds == {"local", "remote"}

\* `${type}_${key}_${Date.now()}`: the three parts determine the string.
MakeId(kind, key, t) == <<kind, key, t>>
NoId == <<"none", "", 0>>
AllIds == {MakeId(k, d, t) : k \in Kinds, d \in Keys, t \in 0..MaxTime}

\* A signaling message's sourceId is a bare key (or, for ICE, a source id).
KeyRef(key) == <<"key", key, 0>>

NoSource == [id |-> NoId]
Idle == [op |-> "idle"]

\* What the last step's call did: its operation and arguments, the source id
\* it returned or was given, how it ended (ok, throw, pending at an await),
\* whether the source it names was registered when the call was made, and,
\* for updateCamera, the fields passed and the entry read at the call.
RetOf(op, key, id, outcome, existed, arg, base) ==
  [op |-> op, key |-> key, id |-> id, outcome |-> outcome, existed |-> existed,
   arg |-> arg, base |-> base]
Ret(op, key, id, outcome, existed) == RetOf(op, key, id, outcome, existed, NoSource, NoSource)
NoRet == Ret("none", "", NoId, "none", FALSE)

\* One entry of the per-step log: an emitted event, a side effect on a
\* browser resource, or a message written to the signaling socket.
Emit(name, sid, src, stream) ==
  [t |-> "emit", name |-> name, sid |-> sid, src |-> src, stream |-> stream]
Fx(name, sid, handle) ==
  [t |-> "fx", name |-> name, sid |-> sid, src |-> NoSource, stream |-> handle]
Sent(type, ref) ==
  [t |-> "send", name |-> type, sid |-> ref, src |-> NoSource, stream |-> 0]

VARIABLES
  sources,          \* Map<string, UnifiedCameraSource>, in insertion order
  statsIntervals,   \* Map<string, number>: [sid, h], source id -> interval handle
  intervals,        \* the browser's setInterval timers: [sid, live]
  streams,          \* MediaStreams: [live, by, dev]; live = its tracks are not ended
  pcs,              \* RTCPeerConnections: [sid, closed, sender]
  sockets,          \* WebSockets ever constructed: readyState
  signalingSocket,  \* this.signalingSocket: index into sockets, 0 = null
  isConnected,      \* this.isConnected
  reconnectAttempts,\* this.reconnectAttempts
  reconnectTimers,  \* pending setTimeout(() => this.connect(), delay): delays
  now,              \* Date.now()
  calls,            \* async calls suspended at an await
  log,              \* events, effects and sends of the last step, in order
  ret,              \* the call that returned or threw in the last step
  channel           \* history of the channel: whether a socket has opened,
                    \* closes since the last open (or the start), and the
                    \* last of connect() called by the application, connect()
                    \* run by a timer, and disconnect()

vars == <<sources, statsIntervals, intervals, streams, pcs, sockets,
          signalingSocket, isConnected, reconnectAttempts, reconnectTimers,
          now, calls, log, ret, channel>>

sigVars == <<sockets, signalingSocket, isConnected, reconnectAttempts, reconnectTimers,
             channel>>

\* ------------------------------------------------ Map<string, source>
Has(srcs, id) == \E i \in 1..Len(srcs) : srcs[i].id = id
IndexOf(srcs, id) == CHOOSE i \in 1..Len(srcs) : srcs[i].id = id
Get(srcs, id) == srcs[IndexOf(srcs, id)]
MapSet(srcs, id, e) ==
  IF Has(srcs, id) THEN [srcs EXCEPT ![IndexOf(srcs, id)] = e] ELSE Append(srcs, e)
MapDelete(srcs, id) == SelectSeq(srcs, LAMBDA e : e.id # id)

\* Array.from(values()).find(pred), given the positions that satisfy pred:
\* the first of them in insertion order, 0 when there is none.
FirstIndex(matches) ==
  IF matches = {} THEN 0 ELSE CHOOSE i \in matches : \A j \in matches : i <= j

\* { ...updates, ...source }: the spread in the other order.
MergeSourceWins(source, updates) ==
  [f \in DOMAIN source \cup DOMAIN updates |->
     IF f \in DOMAIN source THEN source[f] ELSE updates[f]]

\* { ...source, ...updates }
Merge(source, updates) ==
  [f \in DOMAIN source \cup DOMAIN updates |->
     IF f \in DOMAIN updates THEN updates[f] ELSE source[f]]

\* new RTCPeerConnection(config) for source `sid`: open, without a remote
\* description (remote = "none"), no remote candidate handed to it (received),
\* waiting behind a pending setRemoteDescription (chained) or applied
\* (candidates).  `sender` tells whether capture tracks were added to it;
\* `state` is its connectionState and `was` the connectionState before the
\* last change, in the runs that follow the connectionState; `gathering`
\* tells whether a local description has been set on it (by
\* createStreamingOffer or handleIncomingOffer), which starts ICE gathering.
NewPc(sid, sender) ==
  [sid |-> sid, closed |-> FALSE, sender |-> sender, remote |-> "none",
   received |-> 0, chained |-> 0, candidates |-> 0, state |-> "new", was |-> "new",
   gathering |-> FALSE]

FreeSlots == {c \in 1..MaxCalls : calls[c].op = "idle"}
FreeSlot == CHOOSE c \in FreeSlots : \A d \in FreeSlots : c <= d
Busy == Cardinality((1..MaxCalls) \ FreeSlots)

Init ==
  /\ sources = <<>>
  /\ statsIntervals = <<>>
  /\ intervals = <<>>
  /\ streams = <<>>
  /\ pcs = <<>>
  /\ sockets = <<>>
  /\ signalingSocket = 0
  /\ isConnected = FALSE
  /\ reconnectAttempts = 0
  /\ reconnectTimers = <<>>
  /\ now = 0
  /\ calls = [c \in 1..MaxCalls |-> Idle]
  /\ log = <<>>
  /\ ret = NoRet
  /\ channel = [opened |-> FALSE, closes |-> 0, last |-> "none"]

\* The clock advances between steps.
Tick ==
  /\ now < MaxTime
  /\ now' = now + 1
  /\ log' = <<>> /\ ret' = NoRet
  /\ UNCHANGED <<sources, statsIntervals, intervals, streams, pcs, calls, sigVars>>

\* ----------------------------------------------------------- signaling
\* sendSignalingMessage / socket.send under the guard
\* `this.signalingSocket && this.isConnected`.  WebSocket.send throws
\* InvalidStateError on a CONNECTING socket, writes on an OPEN one and
\* discards silently on a CLOSING or CLOSED one.
SendOutcome ==
  IF signalingSocket # 0 /\ isConnected
  THEN CASE sockets[signalingSocket] = "connecting" -> "throw"
         [] sockets[signalingSocket] = "open" -> "sent"
         [] OTHER -> "discarded"
  ELSE "dropped"

SendLog(type, ref) == IF SendOutcome = "sent" THEN <<Sent(type, ref)>> ELSE <<>>

\* ------------------------------------------------ Map<string, number>
StatsHas(tbl, id) == \E i \in 1..Len(tbl) : tbl[i].sid = id
StatsGet(tbl, id) == (CHOOSE i \in 1..Len(tbl) : tbl[i].sid = id)
StatsSet(tbl, id, h) ==
  IF StatsHas(tbl, id)
  THEN [tbl EXCEPT ![StatsGet(tbl, id)] = [sid |-> id, h |-> h]]
  ELSE Append(tbl, [sid |-> id, h |-> h])
StatsDelete(tbl, id) == SelectSeq(tbl, LAMBDA e : e.sid # id)

\* The mutable browser and registry state an operation works on.
Cur ==
  [sources |-> sources, statsIntervals |-> statsIntervals, intervals |-> intervals,
   streams |-> streams, pcs |-> pcs, log |-> <<>>]

\* Commit a state record computed by an operation.
Commit(st) ==
  /\ sources' = st.sources
  /\ statsIntervals' = st.statsIntervals
  /\ intervals' = st.intervals
  /\ streams' = st.streams
  /\ pcs' = st.pcs
  /\ log' = st.log

\* startStatsCollection(sourceId)
StartStats(st, id) ==
  IF ~Has(st.sources, id) \/ Get(st.sources, id).peerConnection = 0
  THEN st
  ELSE [st EXCEPT !.intervals = Append(@, [sid |-> id, live |-> TRUE]),
                  !.statsIntervals = StatsSet(@, id, Len(st.intervals) + 1)]

\* stopStatsCollection(sourceId)
StopStats(st, id) ==
  IF StatsHas(st.statsIntervals, id)
  THEN LET h == st.statsIntervals[StatsGet(st.statsIntervals, id)].h IN
       [st EXCEPT !.intervals = [@ EXCEPT ![h].live = FALSE],
                  !.statsIntervals = StatsDelete(@, id),
                  !.log = Append(@, Fx("clearInterval", id, h))]
  ELSE st

\* source.peerConnection.close()
ClosePc(st, source) ==
  IF source.peerConnection # 0
  THEN [st EXCEPT !.pcs = [@ EXCEPT ![source.peerConnection].closed = TRUE],
                  !.log = Append(@, Fx("pc.close", source.id, source.peerConnection))]
  ELSE st

\* stream.getTracks().forEach(track => track.stop())
StopTracks(st, stream, id) ==
  IF stream # 0
  THEN [st EXCEPT !.streams = [@ EXCEPT ![stream].live = FALSE],
                  !.log = Append(@, Fx("track.stop", id, stream))]
  ELSE st

\* A removeCamera that would announce the removal of an id it does not hold.
RemoveAbsentAnnounces(st, id) ==
  [st EXCEPT !.log = <<Emit("camera-removed", id, NoSource, 0)>>]

\* removeCamera: the id is not in the registry (warn and return).
RemoveAbsent(st, id) == st

\* removeCamera: the id is in the registry.
RemovePresent(st, id) ==
  LET source == Get(st.sources, id)
      s1 == StopStats(st, id)
      s2 == ClosePc(s1, source)
      s3 == StopTracks(s2, source.stream, id)
  IN  [s3 EXCEPT !.sources = MapDelete(@, id),
                 !.log = s3.log \o <<Fx("delete", id, 0), Emit("camera-removed", id, NoSource, 0)>>]

RemoveState(st, id) ==
  IF Has(st.sources, id) THEN RemovePresent(st, id) ELSE RemoveAbsent(st, id)

\* removeCamera(sourceId), for any id, registered or not.
RemoveCamera(id) ==
  /\ Commit(RemoveState(Cur, id))
  /\ ret' = Ret("remove", "", id, "ok", Has(sources, id))
  /\ UNCHANGED <<now, calls, sigVars>>

\* ------------------------------------------------------ addLocalCamera
\* The duplicate check of addLocalCamera: first source with this deviceId.
ExistingLocal(srcs, deviceId) ==
  FirstIndex({i \in 1..Len(srcs) : srcs[i].deviceId = deviceId})

\* addLocalCamera up to `await getUserMedia(...)`.
AddLocalCamera(n, deviceId, name, quality) ==
  LET i == ExistingLocal(sources, deviceId) IN
  /\ Busy < n
  /\ IF i # 0
     THEN /\ ret' = Ret("addLocal", deviceId, sources[i].id, "ok", TRUE)
          /\ calls' = calls
     ELSE /\ ret' = NoRet
          /\ calls' = [calls EXCEPT ![FreeSlot] =
                         [op |-> "addLocal", deviceId |-> deviceId, name |-> name,
                          quality |-> quality, sid |-> MakeId("local", deviceId, now)]]
  /\ log' = <<>>
  /\ UNCHANGED <<sources, statsIntervals, intervals, streams, pcs, now, sigVars>>

\* The source record addLocalCamera builds once the capture stream is open.
LocalSource(call, stream, pc, t) ==
  [id |-> call.sid, type |-> "local", name |-> call.name, deviceId |-> call.deviceId,
   stream |-> stream, peerConnection |-> pc, status |-> "connected",
   width |-> CAMERA_CONSTRAINTS[call.quality].width,
   height |-> CAMERA_CONSTRAINTS[call.quality].height,
   fps |-> CAMERA_CONSTRAINTS[call.quality].fps,
   lastSeen |-> t, errorCount |-> 0]

\* addLocalCamera after getUserMedia resolved.
AddLocalOpened(st, call, t) ==
  LET stream == Len(st.streams) + 1
      pc == Len(st.pcs) + 1
      source == LocalSource(call, stream, pc, t)
      s1 == [st EXCEPT
               !.streams = Append(@, [live |-> TRUE, by |-> "add", dev |-> call.deviceId]),
               !.pcs = Append(@, NewPc(call.sid, TRUE)),
               !.sources = MapSet(@, call.sid, source)]
      s2 == StartStats(s1, call.sid)
  IN  [s2 EXCEPT !.log = @ \o <<Emit("camera-added", call.sid, source, 0),
                                Emit("camera-connected", call.sid, NoSource, stream)>>]

\* addLocalCamera with a failure branch that registers the camera as failed
\* before rethrowing.
AddLocalResumeRegistersFailed(c, ok) ==
  /\ calls[c].op = "addLocal"
  /\ IF ok
     THEN /\ Len(streams) < MaxStreams /\ Len(pcs) < MaxPcs /\ Len(intervals) < MaxIntervals
          /\ Commit(AddLocalOpened(Cur, calls[c], now))
          /\ ret' = Ret("addLocal", calls[c].deviceId, calls[c].sid, "ok", FALSE)
     ELSE /\ Commit([Cur EXCEPT !.sources =
                       MapSet(@, calls[c].sid,
                              [LocalSource(calls[c], 0, 0, now) EXCEPT !.status = "error"])])
          /\ ret' = Ret("addLocal", calls[c].deviceId, calls[c].sid, "throw", FALSE)
  /\ calls' = [calls EXCEPT ![c] = Idle]
  /\ UNCHANGED <<now, sigVars>>

\* getUserMedia settles: addLocalCamera resumes, or rethrows the failure.
AddLocalResume(c, ok) ==
  /\ calls[c].op = "addLocal"
  /\ IF ok
     THEN /\ Len(streams) < MaxStreams /\ Len(pcs) < MaxPcs /\ Len(intervals) < MaxIntervals
          /\ Commit(AddLocalOpened(Cur, calls[c], now))
          /\ ret' = Ret("addLocal", calls[c].deviceId, calls[c].sid, "ok", FALSE)
     ELSE /\ Commit(Cur)
          /\ ret' = Ret("addLocal", calls[c].deviceId, calls[c].sid, "throw", FALSE)
  /\ calls' = [calls EXCEPT ![c] = Idle]
  /\ UNCHANGED <<now, sigVars>>

\* ----------------------------------------------------- addRemoteCamera
\* The duplicate check of addRemoteCamera: first remote source of the session.
ExistingRemote(srcs, sessionId) ==
  FirstIndex({i \in 1..Len(srcs) : srcs[i].type = "remote" /\ srcs[i].deviceId = sessionId})

\* A re-add that would rebuild the entry as addRemoteCamera builds a new one.
UpdateExistingResets(source, name, quality) ==
  [source EXCEPT !.name = name,
                 !.width = CAMERA_CONSTRAINTS[quality].width,
                 !.height = CAMERA_CONSTRAINTS[quality].height,
                 !.fps = CAMERA_CONSTRAINTS[quality].fps,
                 !.stream = 0, !.status = "connecting", !.errorCount = 0]

\* The in-place update of an existing remote source.
UpdateExisting(source, name, quality) ==
  [source EXCEPT !.name = name,
                 !.width = CAMERA_CONSTRAINTS[quality].width,
                 !.height = CAMERA_CONSTRAINTS[quality].height,
                 !.fps = CAMERA_CONSTRAINTS[quality].fps]

\* The source record addRemoteCamera builds for a new session.
RemoteSource(sid, sessionId, name, quality, pc, t) ==
  [id |-> sid, type |-> "remote", name |-> name, deviceId |-> sessionId,
   stream |-> 0, peerConnection |-> pc, status |-> "connecting",
   width |-> CAMERA_CONSTRAINTS[quality].width,
   height |-> CAMERA_CONSTRAINTS[quality].height,
   fps |-> CAMERA_CONSTRAINTS[quality].fps,
   lastSeen |-> t, errorCount |-> 0]

\* addRemoteCamera, existing session: update, emit, re-request the QR URL.
AddRemoteExisting(st, i, sessionId, name, quality) ==
  LET updated == UpdateExisting(st.sources[i], name, quality) IN
  [st EXCEPT !.sources = [@ EXCEPT ![i] = updated],
             !.log = <<Emit("camera-updated", updated.id, updated, 0)>>
                     \o SendLog("create-session", KeyRef(sessionId))]

\* addRemoteCamera, new session: peer connection, entry, event, create-session.
AddRemoteNew(st, sessionId, name, quality, t) ==
  LET sid == MakeId("remote", sessionId, t)
      pc == Len(st.pcs) + 1
      source == RemoteSource(sid, sessionId, name, quality, pc, t)
  IN  [st EXCEPT !.pcs = Append(@, NewPc(sid, FALSE)),
                 !.sources = MapSet(@, sid, source),
                 !.log = <<Emit("camera-added", sid, source, 0)>>
                         \o SendLog("create-session", KeyRef(sessionId))]

\* addRemoteCamera(sessionId, name, quality): it has no await and runs in one step.
AddRemoteCamera(sessionId, name, quality) ==
  LET i == ExistingRemote(sources, sessionId)
      outcome == IF SendOutcome = "throw" THEN "throw" ELSE "ok"
  IN
  /\ IF i # 0
     THEN /\ Commit(AddRemoteExisting(Cur, i, sessionId, name, quality))
          /\ ret' = RetOf("addRemote", sessionId, sources[i].id, outcome, TRUE,
                          [name |-> name, quality |-> quality], NoSource)
     ELSE /\ Len(pcs) < MaxPcs
          /\ Commit(AddRemoteNew(Cur, sessionId, name, quality, now))
          /\ ret' = RetOf("addRemote", sessionId, MakeId("remote", sessionId, now), outcome,
                          FALSE, [name |-> name, quality |-> quality], NoSource)
  /\ UNCHANGED <<now, calls, sigVars>>

\* -------------------------------------------------------- updateCamera
\* `updates.stream && source.peerConnection` and a sender with a video track:
\* updateCamera awaits sender.replaceTrack.  Only the peer connections built by
\* addLocalCamera carry a video sender, and a closed one has no senders.
NeedsReplaceTrack(st, source, updates) ==
  /\ "stream" \in DOMAIN updates
  /\ updates.stream # 0
  /\ source.peerConnection # 0
  /\ st.pcs[source.peerConnection].sender
  /\ ~st.pcs[source.peerConnection].closed

\* The final two statements of updateCamera: sources.set and the event.
UpdateStore(st, id, updated) ==
  [st EXCEPT !.sources = MapSet(@, id, updated),
             !.log = Append(@, Emit("camera-updated", id, updated, 0))]

\* updateCamera up to its await (or to its end when it does not await).
UpdateSync(st, id, updates) ==
  IF ~Has(st.sources, id)
  THEN [st |-> st, outcome |-> "throw", src |-> NoSource, upd |-> updates, base |-> NoSource]
  ELSE LET source == Get(st.sources, id)
           updated == Merge(source, updates)
       IN  IF NeedsReplaceTrack(st, source, updates)
           THEN [st |-> st, outcome |-> "pending", src |-> updated,
                 upd |-> updates, base |-> source]
           ELSE [st |-> UpdateStore(st, id, updated), outcome |-> "ok", src |-> updated,
                 upd |-> updates, base |-> source]

\* Commit an updateCamera call made from call slot c.
UpdateCommit(c, id, r) ==
  /\ Commit(r.st)
  /\ ret' = RetOf("update", "", id, r.outcome, Has(sources, id), r.upd, r.base)
  /\ calls' = [calls EXCEPT ![c] =
                 IF r.outcome = "pending"
                 THEN [op |-> "update", sid |-> id, src |-> r.src, upd |-> r.upd, base |-> r.base]
                 ELSE Idle]

\* Field sets a caller passes to updateCamera without a stream.
GeometryOf(q) == CAMERA_CONSTRAINTS[q]
DirectUpdates == {[name |-> "n2"], GeometryOf("high")}

\* updateCamera(sourceId, updates) called with fields other than a stream.
UpdateCamera(id, updates) ==
  /\ FreeSlots # {}
  /\ UpdateCommit(FreeSlot, id, UpdateSync(Cur, id, updates))
  /\ UNCHANGED <<now, sigVars>>

\* sender.replaceTrack settles: updateCamera stores and emits, or rethrows.
UpdateResume(c, ok) ==
  /\ calls[c].op = "update"
  /\ IF ok
     THEN /\ Commit(UpdateStore(Cur, calls[c].sid, calls[c].src))
          /\ ret' = RetOf("update", "", calls[c].sid, "ok", TRUE, calls[c].upd, calls[c].base)
     ELSE /\ Commit(Cur)
          /\ ret' = RetOf("update", "", calls[c].sid, "throw", TRUE, calls[c].upd, calls[c].base)
  /\ calls' = [calls EXCEPT ![c] = Idle]
  /\ UNCHANGED <<now, sigVars>>

\* updateCamera(sourceId, { stream }) with a MediaStream the caller has just
\* opened for the source's device.
UpdateCameraStream(id) ==
  LET stream == Len(streams) + 1
      dev == IF Has(sources, id) THEN Get(sources, id).deviceId ELSE id[2]
      s1 == [Cur EXCEPT !.streams = Append(@, [live |-> TRUE, by |-> "caller", dev |-> dev])]
  IN
  /\ FreeSlots # {}
  /\ Len(streams) < MaxStreams
  /\ UpdateCommit(FreeSlot, id, UpdateSync(s1, id, [stream |-> stream]))
  /\ UNCHANGED <<now, sigVars>>

\* ------------------- getAllCameras / getLocalCameras / getRemoteCameras
\* sources.values(): the source objects in insertion order, each named by its id.
ValuesOf(srcs) == [i \in 1..Len(srcs) |-> srcs[i].id]

\* A list that is the registry's own view of its values instead of a copy.
LiveView(vals) == [live |-> TRUE, items |-> vals]

\* Array.from(iterable): a new array holding the values iterated at the call.
ArrayFrom(vals) == [live |-> FALSE, items |-> vals]

\* What a list holds in the current state: a live view follows the registry.
Items(list) == IF list.live THEN ValuesOf(sources) ELSE list.items

getAllCameras(srcs) == ArrayFrom(ValuesOf(srcs))

\* array.filter(source => source.type === kind): a new array.
FilterType(list, srcs, kind) ==
  [live |-> FALSE,
   items |-> SelectSeq(IF list.live THEN ValuesOf(srcs) ELSE list.items,
                       LAMBDA id : Get(srcs, id).type = kind)]

getLocalCameras(srcs) == FilterType(getAllCameras(srcs), srcs, "local")
getRemoteCameras(srcs) == FilterType(getAllCameras(srcs), srcs, "remote")

Listings == {"all", "local", "remote"}

\* The ids of the registry entries a listing is about, in registry order.
EntriesListed(srcs, which) ==
  ValuesOf(SelectSeq(srcs, LAMBDA e : which = "all" \/ e.type = which))

\* A caller calls one of the three listings and keeps the returned array.
ListCameras(which) ==
  /\ FreeSlots # {}
  /\ calls' = [calls EXCEPT ![FreeSlot] =
                 [op |-> "list", which |-> which,
                  list |-> CASE which = "all" -> getAllCameras(sources)
                             [] which = "local" -> getLocalCameras(sources)
                             [] OTHER -> getRemoteCameras(sources),
                  at |-> EntriesListed(sources, which)]]
  /\ log' = <<>> /\ ret' = Ret("list", which, NoId, "ok", FALSE)
  /\ UNCHANGED <<sources, statsIntervals, intervals, streams, pcs, now, sigVars>>

\* The caller lets go of a list it kept.
DropList(c) ==
  /\ calls[c].op = "list"
  /\ calls' = [calls EXCEPT ![c] = Idle]
  /\ log' = <<>> /\ ret' = NoRet
  /\ UNCHANGED <<sources, statsIntervals, intervals, streams, pcs, now, sigVars>>

\* ------------------------------------------------ createStreamingOffer
\* createStreamingOffer(sourceId) up to `await createOffer()`: it throws when
\* the source or its peer connection is missing, and createOffer rejects on a
\* closed peer connection.
CreateStreamingOffer(id) ==
  LET pc == IF Has(sources, id) THEN Get(sources, id).peerConnection ELSE 0 IN
  /\ IF pc = 0 \/ pcs[pc].closed
     THEN /\ ret' = Ret("createOffer", "", id, "throw", Has(sources, id))
          /\ calls' = calls
     ELSE /\ FreeSlots # {}
          /\ ret' = Ret("createOffer", "", id, "pending", TRUE)
          /\ calls' = [calls EXCEPT ![FreeSlot] =
                         [op |-> "createOffer", sid |-> id, pc |-> pc, stage |-> 1]]
  /\ log' = <<>>
  /\ UNCHANGED <<sources, statsIntervals, intervals, streams, pcs, now, sigVars>>

\* An await of createStreamingOffer settles: createOffer (stage 1), then
\* setLocalDescription (stage 2), after which the peer connection gathers ICE
\* candidates.  On a peer connection closed meanwhile nothing settles and
\* the call is never resumed.
StreamingOfferResume(c, ok) ==
  LET call == calls[c] IN
  /\ call.op = "createOffer"
  /\ IF pcs[call.pc].closed
     THEN /\ Commit(Cur)
          /\ ret' = NoRet
          /\ calls' = [calls EXCEPT ![c] = Idle]
     ELSE IF ~ok
     THEN /\ Commit(Cur)
          /\ ret' = Ret("createOffer", "", call.sid, "throw", TRUE)
          /\ calls' = [calls EXCEPT ![c] = Idle]
     ELSE IF call.stage = 1
     THEN /\ Commit(Cur)
          /\ ret' = Ret("createOffer", "", call.sid, "pending", TRUE)
          /\ calls' = [calls EXCEPT ![c].stage = 2]
     ELSE /\ Commit([Cur EXCEPT !.pcs[call.pc].gathering = TRUE])
          /\ ret' = Ret("createOffer", "", call.sid, "ok", TRUE)
          /\ calls' = [calls EXCEPT ![c] = Idle]
  /\ UNCHANGED <<now, sigVars>>

\* ------------------------------------- updateCameraSettings (console)
\* What the camera card passes: a resolution, or a frame rate.
UiUpdates == {[width |-> 1280, height |-> 720]}

\* `updates.width || source.width` and its siblings, with the new stream.
UiUpdatedSource(snap, upd, stream) ==
  [snap EXCEPT !.width = IF "width" \in DOMAIN upd THEN upd.width ELSE snap.width,
               !.height = IF "height" \in DOMAIN upd THEN upd.height ELSE snap.height,
               !.fps = IF "fps" \in DOMAIN upd THEN upd.fps ELSE snap.fps,
               !.stream = stream]

\* updateCameraSettings up to `await getUserMedia(...)`.  The console's list
\* mirrors the registry through the manager's events; the card's source is
\* taken to be the registry entry at the time of the click.
UiUpdateSettings(n, id, upd) ==
  /\ Busy < n
  /\ Has(sources, id)
  /\ calls' = [calls EXCEPT ![FreeSlot] =
                 [op |-> "uiUpdate", sid |-> id, snap |-> Get(sources, id), upd |-> upd]]
  /\ log' = <<>> /\ ret' = NoRet
  /\ UNCHANGED <<sources, statsIntervals, intervals, streams, pcs, now, sigVars>>

\* updateCameraSettings after getUserMedia resolved: stop the old stream of
\* the card's source, then call updateCamera with the whole updated source.
UiOpened(st, call) ==
  LET stream == Len(st.streams) + 1
      s1 == [st EXCEPT !.streams =
               Append(@, [live |-> TRUE, by |-> "ui", dev |-> call.snap.deviceId])]
      s2 == StopTracks(s1, call.snap.stream, call.sid)
  IN  UpdateSync(s2, call.sid, UiUpdatedSource(call.snap, call.upd, stream))

\* getUserMedia settles for updateCameraSettings.
UiUpdateResume(c, ok) ==
  /\ calls[c].op = "uiUpdate"
  /\ IF ok
     THEN /\ Len(streams) < MaxStreams
          /\ UpdateCommit(c, calls[c].sid, UiOpened(Cur, calls[c]))
     ELSE /\ Commit(Cur)
          /\ ret' = NoRet
          /\ calls' = [calls EXCEPT ![c] = Idle]
  /\ UNCHANGED <<now, sigVars>>

\* --------------------------------- setupPeerConnectionHandlers(pc, id)
\* Replace the registry entry of id (the handlers mutate it in place).
Mutate(st, id, source) == [st EXCEPT !.sources = MapSet(@, id, source)]

\* The switch of onconnectionstatechange without its case 'failed'.
StateChangedIgnoresFailed(st, source, state) ==
  CASE state = "connected" ->
         [Mutate(st, source.id, [source EXCEPT !.status = "connected"])
            EXCEPT !.log = <<Emit("camera-connected", source.id, NoSource, source.stream)>>]
    [] state = "disconnected" ->
         [Mutate(st, source.id, [source EXCEPT !.status = "disconnected"])
            EXCEPT !.log = <<Emit("camera-disconnected", source.id, NoSource, 0)>>]
    [] state = "connecting" ->
         Mutate(st, source.id, [source EXCEPT !.status = "connecting"])
    [] OTHER -> st

\* The switch with a default branch that falls back to 'connecting'.
StateChangedResetsOnNew(st, source, state) ==
  CASE state = "connected" ->
         [Mutate(st, source.id, [source EXCEPT !.status = "connected"])
            EXCEPT !.log = <<Emit("camera-connected", source.id, NoSource, source.stream)>>]
    [] state \in {"disconnected", "failed"} ->
         [Mutate(st, source.id, [source EXCEPT !.status = "disconnected"])
            EXCEPT !.log = <<Emit("camera-disconnected", source.id, NoSource, 0)>>]
    [] OTHER ->
         Mutate(st, source.id, [source EXCEPT !.status = "connecting"])

\* The switch of onconnectionstatechange on a registered source.
StateChanged(st, source, state) ==
  CASE state = "connected" ->
         [Mutate(st, source.id, [source EXCEPT !.status = "connected"])
            EXCEPT !.log = <<Emit("camera-connected", source.id, NoSource, source.stream)>>]
    [] state \in {"disconnected", "failed"} ->
         [Mutate(st, source.id, [source EXCEPT !.status = "disconnected"])
            EXCEPT !.log = <<Emit("camera-disconnected", source.id, NoSource, 0)>>]
    [] state = "connecting" ->
         Mutate(st, source.id, [source EXCEPT !.status = "connecting"])
    [] OTHER -> st

TransportStates == {"connecting", "connected", "disconnected", "failed"}

\* RTCPeerConnectionState. An open connection falls back to 'new' when no
\* transport is left in another state; 'closed' is the state after close().
ConnectionStates == TransportStates \cup {"new", "closed"}

\* peerConnection.onconnectionstatechange, the connection now being in `state`.
\* The transport of a remote source changes state as the phone negotiates;
\* the connections built by addLocalCamera are never negotiated.
OnConnectionStateChange(p, state) ==
  /\ ~pcs[p].sender
  /\ ~pcs[p].closed
  /\ Commit(IF Has(sources, pcs[p].sid)
            THEN StateChanged(Cur, Get(sources, pcs[p].sid), state)
            ELSE Cur)
  /\ ret' = NoRet
  /\ UNCHANGED <<now, calls, sigVars>>

\* peerConnection.onconnectionstatechange with the connectionState of the peer
\* connection followed: the event fires when the state changes, and the
\* handler reads the new state from the peer connection.
OnTransportState(p, state) ==
  LET s1 == [Cur EXCEPT !.pcs[p].state = state, !.pcs[p].was = pcs[p].state] IN
  /\ ~pcs[p].sender
  /\ ~pcs[p].closed
  /\ pcs[p].state # state
  /\ Commit(IF Has(sources, pcs[p].sid)
            THEN StateChanged(s1, Get(sources, pcs[p].sid), s1.pcs[p].state)
            ELSE s1)
  /\ ret' = NoRet
  /\ UNCHANGED <<now, calls, sigVars>>

\* The body of ontrack without the assignment of the status.
TrackReceivedKeepsStatus(st, source, stream) ==
  LET updated == [source EXCEPT !.stream = stream] IN
  [Mutate(st, source.id, updated)
     EXCEPT !.log = <<Emit("camera-connected", source.id, NoSource, stream),
                      Emit("camera-updated", source.id, updated, 0)>>]

\* The body of ontrack on a registered source, event.streams[0] being `stream`.
TrackReceived(st, source, stream) ==
  LET updated == [source EXCEPT !.stream = stream, !.status = "connected"] IN
  [Mutate(st, source.id, updated)
     EXCEPT !.log = <<Emit("camera-connected", source.id, NoSource, stream),
                      Emit("camera-updated", source.id, updated, 0)>>]

\* peerConnection.ontrack with a stream of the remote device.
OnTrack(p) ==
  LET stream == Len(streams) + 1
      s1 == [Cur EXCEPT !.streams =
               Append(@, [live |-> TRUE, by |-> "track", dev |-> pcs[p].sid[2]])]
  IN
  /\ ~pcs[p].sender
  /\ ~pcs[p].closed
  /\ Len(streams) < MaxStreams
  /\ Commit(IF Has(sources, pcs[p].sid)
            THEN TrackReceived(s1, Get(sources, pcs[p].sid), stream)
            ELSE s1)
  /\ ret' = NoRet
  /\ UNCHANGED <<now, calls, sigVars>>

\* The body of onicecandidateerror with the source marked as failed.
IceErrorSetsStatus(st, source) ==
  [Mutate(st, source.id, [source EXCEPT !.errorCount = @ + 1, !.status = "error"])
     EXCEPT !.log = <<Emit("camera-error", source.id, NoSource, 0)>>]

\* The body of onicecandidateerror on a registered source.
IceError(st, source) ==
  [Mutate(st, source.id, [source EXCEPT !.errorCount = @ + 1])
     EXCEPT !.log = <<Emit("camera-error", source.id, NoSource, 0)>>]

\* peerConnection.onicecandidateerror.  A connection built by addLocalCamera
\* gathers candidates only once createStreamingOffer has run on it.
OnIceCandidateError(p) ==
  /\ ~pcs[p].sender \/ pcs[p].gathering
  /\ ~pcs[p].closed
  /\ Has(sources, pcs[p].sid) => Get(sources, pcs[p].sid).errorCount < MaxErrors
  /\ Commit(IF Has(sources, pcs[p].sid)
            THEN IceError(Cur, Get(sources, pcs[p].sid))
            ELSE Cur)
  /\ ret' = NoRet
  /\ UNCHANGED <<now, calls, sigVars>>

\* peerConnection.onicecandidate with a candidate: sendSignalingMessage of an
\* 'ice-candidate' for the source of the peer connection.
OnIceCandidate(p) ==
  /\ ~pcs[p].closed
  /\ log' = SendLog("ice-candidate", pcs[p].sid)
  /\ ret' = Ret("send", "", pcs[p].sid, IF SendOutcome = "throw" THEN "throw" ELSE "ok", FALSE)
  /\ UNCHANGED <<sources, statsIntervals, intervals, streams, pcs, now, calls, sigVars>>

\* ------------------------------------------------ connect / disconnect
\* connect(): a new WebSocket replaces this.signalingSocket; its handlers
\* are attached to the new socket, and stay attached to every older one.
ConnectWithin(n) ==
  /\ Len(sockets) < n
  /\ sockets' = Append(sockets, "connecting")
  /\ signalingSocket' = Len(sockets) + 1
  /\ log' = <<>> /\ ret' = NoRet
  /\ channel' = [channel EXCEPT !.last = "explicit"]
  /\ UNCHANGED <<sources, statsIntervals, intervals, streams, pcs, now, calls,
                 isConnected, reconnectAttempts, reconnectTimers>>

Connect == ConnectWithin(MaxSockets)

\* socket.onopen
OnOpen(h) ==
  /\ sockets[h] = "connecting"
  /\ sockets' = [sockets EXCEPT ![h] = "open"]
  /\ isConnected' = TRUE
  /\ reconnectAttempts' = 0
  /\ log' = <<Emit("connected", NoId, NoSource, 0)>> /\ ret' = NoRet
  /\ channel' = [channel EXCEPT !.opened = TRUE, !.closes = 0]
  /\ UNCHANGED <<sources, statsIntervals, intervals, streams, pcs, now, calls,
                 signalingSocket, reconnectTimers>>

\* An onclose that would retry whatever the number of attempts made.
OnCloseAlwaysRetries(h) ==
  /\ sockets[h] # "closed"
  /\ sockets' = [sockets EXCEPT ![h] = "closed"]
  /\ isConnected' = FALSE
  /\ reconnectAttempts' = reconnectAttempts + 1
  /\ reconnectTimers' = Append(reconnectTimers, BaseDelay * (reconnectAttempts + 1))
  /\ log' = <<Emit("disconnected", NoId, NoSource, 0)>> /\ ret' = NoRet
  /\ channel' = [channel EXCEPT !.closes = @ + 1]
  /\ UNCHANGED <<sources, statsIntervals, intervals, streams, pcs, now, calls,
                 signalingSocket>>

\* An onclose that would wait the same delay before every attempt.
OnCloseFixedDelay(h) ==
  /\ sockets[h] # "closed"
  /\ sockets' = [sockets EXCEPT ![h] = "closed"]
  /\ isConnected' = FALSE
  /\ IF autoReconnect /\ reconnectAttempts < maxReconnectAttempts
     THEN /\ reconnectAttempts' = reconnectAttempts + 1
          /\ reconnectTimers' = Append(reconnectTimers, BaseDelay)
     ELSE UNCHANGED <<reconnectAttempts, reconnectTimers>>
  /\ log' = <<Emit("disconnected", NoId, NoSource, 0)>> /\ ret' = NoRet
  /\ channel' = [channel EXCEPT !.closes = @ + 1]
  /\ UNCHANGED <<sources, statsIntervals, intervals, streams, pcs, now, calls,
                 signalingSocket>>

\* socket.onclose: the close event of any socket that is not yet closed.
OnClose(h) ==
  /\ sockets[h] # "closed"
  /\ sockets' = [sockets EXCEPT ![h] = "closed"]
  /\ isConnected' = FALSE
  /\ IF autoReconnect /\ reconnectAttempts < maxReconnectAttempts
     THEN /\ reconnectAttempts' = reconnectAttempts + 1
          /\ reconnectTimers' = Append(reconnectTimers, BaseDelay * (reconnectAttempts + 1))
     ELSE UNCHANGED <<reconnectAttempts, reconnectTimers>>
  /\ log' = <<Emit("disconnected", NoId, NoSource, 0)>> /\ ret' = NoRet
  /\ channel' = [channel EXCEPT !.closes = @ + 1]
  /\ UNCHANGED <<sources, statsIntervals, intervals, streams, pcs, now, calls,
                 signalingSocket>>

\* A reconnect timeout fires: () => this.connect()
ReconnectFireWithin(n, i) ==
  /\ Len(sockets) < n
  /\ reconnectTimers' = [j \in 1..(Len(reconnectTimers) - 1) |->
                           IF j < i THEN reconnectTimers[j] ELSE reconnectTimers[j + 1]]
  /\ sockets' = Append(sockets, "connecting")
  /\ signalingSocket' = Len(sockets) + 1
  /\ log' = <<>> /\ ret' = NoRet
  /\ channel' = [channel EXCEPT !.last = "timer"]
  /\ UNCHANGED <<sources, statsIntervals, intervals, streams, pcs, now, calls,
                 isConnected, reconnectAttempts>>

ReconnectFire(i) == ReconnectFireWithin(MaxSockets, i)

\* sources.forEach(source => this.removeCamera(source.id))
RECURSIVE RemoveAll(_, _)
RemoveAll(st, ids) ==
  IF ids = <<>> THEN st ELSE RemoveAll(RemoveState(st, Head(ids)), Tail(ids))

\* A disconnect() whose loop would end after the first source.
DisconnectFirstOnly ==
  /\ sockets' = IF signalingSocket # 0 /\ sockets[signalingSocket] \in {"connecting", "open"}
                THEN [sockets EXCEPT ![signalingSocket] = "closing"]
                ELSE sockets
  /\ signalingSocket' = 0
  /\ Commit(IF sources = <<>> THEN Cur ELSE RemoveState(Cur, sources[1].id))
  /\ isConnected' = FALSE
  /\ ret' = Ret("disconnect", "", NoId, "ok", FALSE)
  /\ channel' = [channel EXCEPT !.last = "disconnect"]
  /\ UNCHANGED <<now, calls, reconnectAttempts, reconnectTimers>>

\* disconnect()
Disconnect ==
  /\ sockets' = IF signalingSocket # 0 /\ sockets[signalingSocket] \in {"connecting", "open"}
                THEN [sockets EXCEPT ![signalingSocket] = "closing"]
                ELSE sockets
  /\ signalingSocket' = 0
  /\ Commit(RemoveAll(Cur, [i \in 1..Len(sources) |-> sources[i].id]))
  /\ isConnected' = FALSE
  /\ ret' = Ret("disconnect", "", NoId, "ok", FALSE)
  /\ channel' = [channel EXCEPT !.last = "disconnect"]
  /\ UNCHANGED <<now, calls, reconnectAttempts, reconnectTimers>>

\* ------------------------------------------- handleSignalingMessage
\* The body of the forEach of 'session-created' on one source.
SessionSeen(st, s, key) ==
  IF s.deviceId = key /\ s.type = "remote"
  THEN LET u == [s EXCEPT !.status = "connecting"] IN
       [Mutate(st, s.id, u) EXCEPT !.log = Append(@, Emit("camera-updated", s.id, u, 0))]
  ELSE st

RECURSIVE SessionCreatedFrom(_, _, _)
\* sources.forEach of 'session-created', from position i on
SessionCreatedFrom(st, i, key) ==
  IF i > Len(st.sources) THEN st
  ELSE SessionCreatedFrom(SessionSeen(st, st.sources[i], key), i + 1, key)

\* case 'session-created'
SessionCreated(st, key) ==
  [SessionCreatedFrom(st, 1, key)
     EXCEPT !.log = Append(@, Emit("session-created", KeyRef(key), NoSource, 0))]

\* The body of the forEach of 'phone-connected' on one source.  The event
\* carries `source.stream || new MediaStream()`: for a source without a stream
\* the handle 0 stands for the empty stream made for the event, which the
\* registry entry does not hold.
PhoneSeen(st, s, key) ==
  IF s.deviceId = key
  THEN [Mutate(st, s.id, [s EXCEPT !.status = "connected"])
          EXCEPT !.log = Append(@, Emit("camera-connected", s.id, NoSource, s.stream))]
  ELSE st

RECURSIVE PhoneConnectedFrom(_, _, _)
\* sources.forEach of 'phone-connected', from position i on
PhoneConnectedFrom(st, i, key) ==
  IF i > Len(st.sources) THEN st
  ELSE PhoneConnectedFrom(PhoneSeen(st, st.sources[i], key), i + 1, key)

\* case 'phone-connected' / 'external-device-connected'
PhoneConnected(st, key) == PhoneConnectedFrom(st, 1, key)

\* socket.onmessage with a 'session-created' message for session `key`.
OnSessionCreated(h, key) ==
  /\ sockets[h] = "open"
  /\ Commit(SessionCreated(Cur, key))
  /\ ret' = NoRet
  /\ UNCHANGED <<now, calls, sigVars>>

\* socket.onmessage with a 'phone-connected' message for session `key`.
OnPhoneConnected(h, key) ==
  /\ sockets[h] = "open"
  /\ Commit(PhoneConnected(Cur, key))
  /\ ret' = NoRet
  /\ UNCHANGED <<now, calls, sigVars>>

\* handleIncomingOffer: the source an offer is for, found by id and otherwise
\* as the first remote source of that session; 0 when there is none.
OfferSource(srcs, ref) ==
  IF Has(srcs, ref) THEN IndexOf(srcs, ref)
  ELSE FirstIndex({i \in 1..Len(srcs) : srcs[i].deviceId = ref[2] /\ srcs[i].type = "remote"
                                          /\ ref[1] = "key"})

\* The catch block of handleIncomingOffer on the source object it holds: the
\* object is the registry entry only while that entry has its id and peer
\* connection.
OfferFailed(st, sid, pc) ==
  IF Has(st.sources, sid) /\ Get(st.sources, sid).peerConnection = pc
  THEN LET u == [Get(st.sources, sid) EXCEPT !.status = "error"] IN
       [Mutate(st, sid, u) EXCEPT !.log = Append(@, Emit("camera-updated", sid, u, 0))]
  ELSE [st EXCEPT !.log = Append(@, Emit("camera-updated", sid, NoSource, 0))]

\* handleIncomingOffer after its last await without sending the answer.
OfferAnsweredSilently(st, sid, pc, ref) ==
  IF Has(st.sources, sid) /\ Get(st.sources, sid).peerConnection = pc
  THEN LET u == [Get(st.sources, sid) EXCEPT !.status = "connecting"] IN
       [Mutate(st, sid, u) EXCEPT !.log = <<Emit("camera-updated", sid, u, 0)>>]
  ELSE [st EXCEPT !.log = <<Emit("camera-updated", sid, NoSource, 0)>>]

\* handleIncomingOffer after its last await: the answer goes out on the socket
\* under the guard of lines 380-395, then the held source object becomes
\* 'connecting'.  A send that throws lands in the catch block.
OfferAnswered(st, sid, pc, ref) ==
  IF SendOutcome = "throw" THEN OfferFailed(st, sid, pc)
  ELSE IF Has(st.sources, sid) /\ Get(st.sources, sid).peerConnection = pc
  THEN LET u == [Get(st.sources, sid) EXCEPT !.status = "connecting"] IN
       [Mutate(st, sid, u) EXCEPT
          !.log = SendLog("answer", ref) \o <<Emit("camera-updated", sid, u, 0)>>]
  ELSE [st EXCEPT
          !.log = SendLog("answer", ref) \o <<Emit("camera-updated", sid, NoSource, 0)>>]

\* setRemoteDescription settles on peer connection pc: on success the remote
\* description is set and the candidates chained behind it are applied, on
\* failure they are rejected with it.
RemoteDescriptionSettled(st, pc, ok) ==
  [st EXCEPT !.pcs[pc] =
     IF ok THEN [@ EXCEPT !.remote = "set", !.candidates = @ + st.pcs[pc].chained,
                          !.chained = 0]
     ELSE [@ EXCEPT !.remote = IF @ = "pending" THEN "none" ELSE @, !.chained = 0]]

\* socket.onmessage with a well-formed 'offer' for session `key`:
\* handleIncomingOffer up to its first await.  Every source of the model has a
\* peer connection, so lines 365-368 build none.  On a closed peer connection
\* setRemoteDescription rejects at once and the catch block runs.
OnOffer(h, key) ==
  LET i == OfferSource(sources, KeyRef(key)) IN
  /\ sockets[h] = "open"
  /\ IF i = 0
     THEN /\ Commit(Cur)
          /\ ret' = Ret("offer", key, NoId, "dropped", FALSE)
          /\ calls' = calls
     ELSE LET sid == sources[i].id
              pc == sources[i].peerConnection IN
          /\ pc # 0
          /\ IF pcs[pc].closed
             THEN /\ Commit(OfferFailed(Cur, sid, pc))
                  /\ ret' = Ret("offer", key, sid, "error", TRUE)
                  /\ calls' = calls
             ELSE /\ FreeSlots # {}
                  /\ Commit([Cur EXCEPT !.pcs[pc].remote = IF @ = "none" THEN "pending" ELSE @])
                  /\ ret' = Ret("offer", key, sid, "pending", TRUE)
                  /\ calls' = [calls EXCEPT ![FreeSlot] =
                                 [op |-> "offer", sid |-> sid, pc |-> pc, ref |-> KeyRef(key),
                                  stage |-> 1]]
  /\ UNCHANGED <<now, sigVars>>

\* An await of handleIncomingOffer settles: setRemoteDescription (stage 1),
\* createAnswer (stage 2), setLocalDescription (stage 3).  Once the peer
\* connection is closed its pending operations never settle and the call is
\* never resumed: its slot is given up.
OfferResume(c, ok) ==
  LET call == calls[c] IN
  /\ call.op = "offer"
  /\ IF pcs[call.pc].closed
     THEN /\ Commit(Cur)
          /\ ret' = NoRet
          /\ calls' = [calls EXCEPT ![c] = Idle]
     ELSE LET st == IF call.stage = 1 THEN RemoteDescriptionSettled(Cur, call.pc, ok) ELSE Cur IN
          IF ~ok
          THEN /\ Commit(OfferFailed(st, call.sid, call.pc))
               /\ ret' = Ret("offer", call.ref[2], call.sid, "error", TRUE)
               /\ calls' = [calls EXCEPT ![c] = Idle]
          ELSE IF call.stage < 3
          THEN /\ Commit(st)
               /\ ret' = Ret("offer", call.ref[2], call.sid, "pending", TRUE)
               /\ calls' = [calls EXCEPT ![c].stage = @ + 1]
          ELSE /\ Commit(OfferAnswered([st EXCEPT !.pcs[call.pc].gathering = TRUE],
                                        call.sid, call.pc, call.ref))
               /\ ret' = Ret("offer", call.ref[2], call.sid,
                             IF SendOutcome = "throw" THEN "error" ELSE "ok", TRUE)
               /\ calls' = [calls EXCEPT ![c] = Idle]
  /\ UNCHANGED <<now, sigVars>>

\* The lookup of handleIncomingOffer in place of sources.get(sourceId).
IceSourceBySession(srcs, ref) ==
  IF OfferSource(srcs, ref) = 0 THEN 0 ELSE srcs[OfferSource(srcs, ref)].peerConnection

\* addIceCandidate(sourceId, candidate): the peer connection the candidate is
\* for, 0 when the source or its peer connection is missing.
IceSource(srcs, ref) ==
  IF Has(srcs, ref) THEN Get(srcs, ref).peerConnection ELSE 0

\* How addIceCandidate(sourceId, candidate) settles: "dropped" by the guard,
\* "rejected" by the peer connection when it is closed or has no remote
\* description, "chained" behind a pending setRemoteDescription, "applied".
IceOutcome(st, ref) ==
  LET p == IceSource(st.sources, ref) IN
  CASE p = 0 -> "dropped"
    [] p # 0 /\ st.pcs[p].closed -> "rejected"
    [] p # 0 /\ ~st.pcs[p].closed /\ st.pcs[p].remote = "none" -> "rejected"
    [] p # 0 /\ ~st.pcs[p].closed /\ st.pcs[p].remote = "pending" -> "chained"
    [] OTHER -> "applied"

\* addIceCandidate(sourceId, candidate)
AddIceCandidate(st, ref) ==
  LET p == IceSource(st.sources, ref)
      o == IceOutcome(st, ref) IN
  IF p = 0 THEN st
  ELSE [st EXCEPT !.pcs[p] =
          [@ EXCEPT !.received = @ + 1,
                    !.chained = IF o = "chained" THEN @ + 1 ELSE @,
                    !.candidates = IF o = "applied" THEN @ + 1 ELSE @]]

\* socket.onmessage with a well-formed 'ice-candidate' whose sourceId is `ref`.
\* handleSignalingMessage does not await addIceCandidate: a rejection is
\* handled by nobody.
OnIceMessage(h, ref) ==
  LET p == IceSource(sources, ref) IN
  /\ sockets[h] = "open"
  /\ p # 0 => pcs[p].received < MaxCandidates
  /\ Commit(AddIceCandidate(Cur, ref))
  /\ ret' = Ret("ice", "", ref, IceOutcome(Cur, ref), p # 0)
  /\ UNCHANGED <<now, calls, sigVars>>

\* How handleStreamingAnswer(sourceId, answer) settles.  It throws when the
\* source or its peer connection is missing, and setRemoteDescription rejects
\* an answer on a peer connection that is closed or has made no offer; the
\* caller, handleSignalingMessage, neither awaits nor catches, so each of
\* these is a rejection nobody handles.
AnswerOutcome(st, ref) ==
  LET p == IceSource(st.sources, ref) IN
  IF p # 0 /\ ~st.pcs[p].closed /\ st.pcs[p].gathering THEN "applied" ELSE "unhandled"

\* handleStreamingAnswer(sourceId, answer)
HandleStreamingAnswer(st, ref) ==
  IF AnswerOutcome(st, ref) = "applied"
  THEN RemoteDescriptionSettled(st, IceSource(st.sources, ref), TRUE)
  ELSE st

\* socket.onmessage with a well-formed 'answer' whose sourceId is `ref`.
OnAnswer(h, ref) ==
  /\ sockets[h] = "open"
  /\ Commit(HandleStreamingAnswer(Cur, ref))
  /\ ret' = Ret("answer", "", ref, AnswerOutcome(Cur, ref), IceSource(sources, ref) # 0)
  /\ UNCHANGED <<now, calls, sigVars>>

\* The kinds of malformed inbound message: text that is not JSON, a message of
\* no known type, and messages of a known type without a usable payload.
MalformedKinds ==
  {"not-json", "unknown-type", "session-created", "offer", "ice-candidate", "error"}

\* What onmessage does with a malformed message for session `key`.  JSON.parse
\* and the payload dereferences of 'ice-candidate' and 'error' throw inside the
\* try block of onmessage; 'session-created' reads its payload with `?.` and
\* runs as usual; setRemoteDescription rejects an offer that is no session
\* description, which handleIncomingOffer catches.
Malformed(st, kind, key) ==
  CASE kind = "session-created" -> SessionCreated(st, key)
    [] kind = "offer" ->
         LET i == OfferSource(st.sources, KeyRef(key)) IN
         IF i = 0 THEN st
         ELSE OfferFailed(st, st.sources[i].id, st.sources[i].peerConnection)
    [] OTHER -> st

\* socket.onmessage with a malformed message.
OnMalformed(h, kind, key) ==
  /\ sockets[h] = "open"
  /\ Commit(Malformed(Cur, kind, key))
  /\ ret' = Ret("malformed", key, NoId, "ok", FALSE)
  /\ UNCHANGED <<now, calls, sigVars>>

\* ------------------------------------------------------ specifications
\* addLocalCamera, addRemoteCamera and removeCamera; n bounds the calls that
\* may be suspended at an await at the same time.
AddRemoveStep(n) ==
  \/ Tick
  \/ \E d \in Keys, nm \in LocalNames, q \in LocalQualities : AddLocalCamera(n, d, nm, q)
  \/ \E c \in 1..MaxCalls, ok \in BOOLEAN : AddLocalResume(c, ok)
  \/ \E d \in Keys, nm \in Names, q \in Qualities : AddRemoteCamera(d, nm, q)
  \/ \E id \in AllIds : RemoveCamera(id)

\* updateCamera, directly and through the console's updateCameraSettings.
UpdateStep(n) ==
  \/ \E id \in AllIds, u \in DirectUpdates : UpdateCamera(id, u)
  \/ \E c \in 1..MaxCalls, ok \in BOOLEAN : UpdateResume(c, ok)
  \/ \E id \in AllIds, u \in UiUpdates : UiUpdateSettings(n, id, u)
  \/ \E c \in 1..MaxCalls, ok \in BOOLEAN : UiUpdateResume(c, ok)

\* The callbacks of the peer connections.
TransportStep ==
  \/ \E p \in 1..Len(pcs), s \in TransportStates : OnConnectionStateChange(p, s)
  \/ \E p \in 1..Len(pcs) : OnTrack(p)
  \/ \E p \in 1..Len(pcs) : OnIceCandidateError(p)

\* connect, disconnect and the callbacks of the signaling sockets.
SignalingStep ==
  \/ Connect
  \/ \E h \in 1..Len(sockets) : OnOpen(h)
  \/ \E h \in 1..Len(sockets) : OnClose(h)
  \/ \E i \in 1..Len(reconnectTimers) : ReconnectFire(i)
  \/ Disconnect
  \/ \E h \in 1..Len(sockets), k \in Keys : OnSessionCreated(h, k)
  \/ \E h \in 1..Len(sockets), k \in Keys : OnPhoneConnected(h, k)

\* Local cameras: addLocalCamera and removeCamera.
LocalStep(n) ==
  \/ \E d \in Keys, nm \in LocalNames, q \in LocalQualities : AddLocalCamera(n, d, nm, q)
  \/ \E c \in 1..MaxCalls, ok \in BOOLEAN : AddLocalResume(c, ok)
  \/ \E id \in AllIds : RemoveCamera(id)

\* Remote sessions: addRemoteCamera and removeCamera.
RemoteStep ==
  \/ \E d \in Keys, nm \in Names, q \in Qualities : AddRemoteCamera(d, nm, q)
  \/ \E id \in AllIds : RemoveCamera(id)

\* Adding and removing sources, calls and transport callbacks interleaved.
Next == AddRemoveStep(MaxCalls) \/ TransportStep
Spec == Init /\ [][Next]_vars

\* Adding and removing sources, every call run to completion before the next.
NextSeq == AddRemoveStep(1) \/ TransportStep
SpecSeq == Init /\ [][NextSeq]_vars

\* Updating local sources: cameras are added one call at a time, updates
\* overlap each other and removeCamera.
NextUpdate == LocalStep(1) \/ UpdateStep(MaxCalls)
SpecUpdate == Init /\ [][NextUpdate]_vars

\* Changing the settings of registered cameras: overlapping updates, no removal.
NextSettings ==
  \/ \E d \in Keys, nm \in LocalNames, q \in LocalQualities : AddLocalCamera(1, d, nm, q)
  \/ \E c \in 1..MaxCalls, ok \in BOOLEAN : AddLocalResume(c, ok)
  \/ UpdateStep(MaxCalls)
SpecSettings == Init /\ [][NextSettings]_vars

\* The signaling channel alone: connect, disconnect, socket events, timers.
NextChannel ==
  \/ ConnectWithin(MaxChannelSockets)
  \/ \E h \in 1..Len(sockets) : OnOpen(h)
  \/ \E h \in 1..Len(sockets) : OnClose(h)
  \/ \E i \in 1..Len(reconnectTimers) : ReconnectFireWithin(MaxChannelSockets, i)
  \/ Disconnect
SpecChannel == Init /\ [][NextChannel]_vars

\* The application calls connect() only while the manager has no socket that
\* is opening or open and no reconnect pending.
ConnectWhenIdle ==
  /\ \A h \in 1..Len(sockets) : sockets[h] = "closed"
  /\ reconnectTimers = <<>>
  /\ ConnectWithin(MaxChannelSockets)

\* One connection at a time: connect() when idle, socket events, retries.
NextRetry ==
  \/ Tick
  \/ ConnectWhenIdle
  \/ \E h \in 1..Len(sockets) : OnOpen(h)
  \/ \E h \in 1..Len(sockets) : OnClose(h)
  \/ \E i \in 1..Len(reconnectTimers) : ReconnectFireWithin(MaxChannelSockets, i)
SpecRetry == Init /\ [][NextRetry]_vars

\* Tearing everything down: local and remote sources are added, the remote
\* ones receive their stream, and disconnect() is called at any point.
NextTeardown ==
  \/ \E d \in Keys, nm \in LocalNames, q \in LocalQualities :
       AddLocalCamera(MaxCalls, d, nm, q)
  \/ \E c \in 1..MaxCalls, ok \in BOOLEAN : AddLocalResume(c, ok)
  \/ \E d \in Keys, nm \in Names, q \in Qualities : AddRemoteCamera(d, nm, q)
  \/ \E p \in 1..Len(pcs) : OnTrack(p)
  \/ Connect
  \/ \E h \in 1..Len(sockets) : OnOpen(h)
  \/ Disconnect
SpecTeardown == Init /\ [][NextTeardown]_vars

\* Sending on the channel: a remote source's peer connection produces ICE
\* candidates while the channel is connected, replaced and closed.
NextSend ==
  \/ Tick
  \/ \E d \in Keys, nm \in Names, q \in Qualities : AddRemoteCamera(d, nm, q)
  \/ \E p \in 1..Len(pcs) : OnIceCandidate(p)
  \/ Connect
  \/ \E h \in 1..Len(sockets) : OnOpen(h)
  \/ \E h \in 1..Len(sockets) : OnClose(h)
  \/ Disconnect
SpecSend == Init /\ [][NextSend]_vars

\* Inbound messages, well-formed and malformed, for remote sources that
\* connect and receive their stream.
NextMessages ==
  \/ \E d \in Keys, nm \in Names, q \in Qualities : AddRemoteCamera(d, nm, q)
  \/ \E id \in AllIds : RemoveCamera(id)
  \/ \E p \in 1..Len(pcs) : OnTrack(p)
  \/ Connect
  \/ \E h \in 1..Len(sockets) : OnOpen(h)
  \/ \E h \in 1..Len(sockets), k \in Keys : OnSessionCreated(h, k)
  \/ \E h \in 1..Len(sockets), k \in Keys : OnPhoneConnected(h, k)
  \/ \E h \in 1..Len(sockets), kind \in MalformedKinds, k \in Keys : OnMalformed(h, kind, k)
SpecMessages == Init /\ [][NextMessages]_vars

\* Offers and ICE candidates from the signaling server for remote sources.
NextIce ==
  \/ \E d \in Keys : AddRemoteCamera(d, "n1", "medium")
  \/ \E id \in AllIds : RemoveCamera(id)
  \/ Connect
  \/ \E h \in 1..Len(sockets) : OnOpen(h)
  \/ \E h \in 1..Len(sockets), k \in Keys : OnOffer(h, k)
  \/ \E c \in 1..MaxCalls, ok \in BOOLEAN : OfferResume(c, ok)
  \/ \E h \in 1..Len(sockets), ref \in AllIds \cup {KeyRef(k) : k \in Keys} : OnIceMessage(h, ref)
SpecIce == Init /\ [][NextIce]_vars

\* The transport of remote sources: their peer connections pass through
\* connection states while sources are added, re-added and removed.
NextTransport ==
  \/ Tick
  \/ \E d \in Keys, nm \in Names, q \in Qualities : AddRemoteCamera(d, nm, q)
  \/ \E id \in AllIds : RemoveCamera(id)
  \/ \E p \in 1..Len(pcs), s \in ConnectionStates \ {"closed"} : OnTransportState(p, s)
SpecTransport == Init /\ [][NextTransport]_vars

\* Streaming a local camera: createStreamingOffer starts ICE gathering on its
\* peer connection, whose candidate errors arrive while updateCamera calls
\* with a new stream are suspended at replaceTrack.
NextStreaming ==
  \/ \E d \in Keys, nm \in LocalNames, q \in LocalQualities : AddLocalCamera(1, d, nm, q)
  \/ \E c \in 1..MaxCalls, ok \in BOOLEAN : AddLocalResume(c, ok)
  \/ \E id \in AllIds : RemoveCamera(id)
  \/ \E id \in AllIds : CreateStreamingOffer(id)
  \/ \E c \in 1..MaxCalls, ok \in BOOLEAN : StreamingOfferResume(c, ok)
  \/ \E p \in 1..Len(pcs) : OnIceCandidateError(p)
  \/ \E id \in AllIds, u \in DirectUpdates : UpdateCamera(id, u)
  \/ \E id \in AllIds : UpdateCameraStream(id)
  \/ \E c \in 1..MaxCalls, ok \in BOOLEAN : UpdateResume(c, ok)
SpecStreaming == Init /\ [][NextStreaming]_vars

\* Listing the registry while sources are added and removed.
NextList ==
  \/ AddRemoveStep(MaxCalls)
  \/ \E which \in Listings : ListCameras(which)
  \/ \E c \in 1..MaxCalls : DropList(c)
SpecList == Init /\ [][NextList]_vars

\* Answers and offers from the signaling server while a local camera is
\* registered, offered for streaming and removed: the messages name its id,
\* other ids and sessions without a source.
NextAnswer ==
  \/ \E d \in Keys, nm \in LocalNames, q \in LocalQualities : AddLocalCamera(1, d, nm, q)
  \/ \E c \in 1..MaxCalls, ok \in BOOLEAN : AddLocalResume(c, ok)
  \/ \E id \in AllIds : RemoveCamera(id)
  \/ \E id \in AllIds : CreateStreamingOffer(id)
  \/ \E c \in 1..MaxCalls, ok \in BOOLEAN : StreamingOfferResume(c, ok)
  \/ Connect
  \/ \E h \in 1..Len(sockets) : OnOpen(h)
  \/ \E h \in 1..Len(sockets), k \in Keys : OnOffer(h, k)
  \/ \E h \in 1..Len(sockets), ref \in AllIds \cup {KeyRef(k) : k \in Keys} : OnAnswer(h, ref)
SpecAnswer == Init /\ [][NextAnswer]_vars

\* Remote sources under signaling and transport callbacks.
NextRemote == RemoteStep \/ TransportStep \/ SignalingStep
SpecRemote == Init /\ [][NextRemote]_vars


\* ================================================================ claims
\* Helpers of the claim formulas.
KindOf(op) == IF op = "addLocal" THEN "local" ELSE "remote"
EntriesOf(srcs, kind, key) ==
  {i \in 1..Len(srcs) : srcs[i].type = kind /\ srcs[i].deviceId = key}
EmitsOf(lg, name, id) ==
  {i \in 1..Len(lg) : lg[i].t = "emit" /\ lg[i].name = name /\ lg[i].sid = id}
AllEmits(lg) == {i \in 1..Len(lg) : lg[i].t = "emit"}
LiveCaptures(d) ==
  {s \in 1..Len(streams) : streams[s].live /\ streams[s].by = "add" /\ streams[s].dev = d}
OpenLocalPcs(d) ==
  {p \in 1..Len(pcs) : pcs[p].sender /\ ~pcs[p].closed /\ pcs[p].sid[2] = d}

\* C1: with every call run to completion before the next, an add call that
\* returns leaves exactly one registry entry for its (kind, key) pair, and the
\* id it returns is the id of that entry (so repeated calls return one id).
C1_OneEntryPerKindAndKey ==
  (ret.op \in {"addLocal", "addRemote"} /\ ret.outcome = "ok") =>
    LET same == EntriesOf(sources, KindOf(ret.op), ret.key) IN
    /\ Cardinality(same) = 1
    /\ \A i \in same : sources[i].id = ret.id

\* C2: addLocalCamera calls for one deviceId that overlap at getUserMedia end
\* with a single local entry for the device whose id each of them returns, and
\* with one capture stream and one peer connection open for the device.
C2_OverlappingAddsShareOneSource ==
  (ret.op = "addLocal" /\ ret.outcome = "ok" /\ ~ret.existed) =>
    /\ \A i \in EntriesOf(sources, "local", ret.key) : sources[i].id = ret.id
    /\ Cardinality(EntriesOf(sources, "local", ret.key)) = 1
    /\ Cardinality(LiveCaptures(ret.key)) = 1
    /\ Cardinality(OpenLocalPcs(ret.key)) = 1

\* C3: the id addLocalCamera returns names a local entry of that deviceId; a
\* remote entry with the same key is never returned in its place.
C3_LocalAddReturnsLocalEntry ==
  (ret.op = "addLocal" /\ ret.outcome = "ok") =>
    \E i \in EntriesOf(sources, "local", ret.key) : sources[i].id = ret.id

\* C4: addRemoteCamera for a session that already has a remote source
\* returns that source's id, sets its name, width, height and fps from the
\* arguments, emits one 'camera-updated' and no 'camera-added', and leaves the
\* number of registry entries as it was.
C4_ReAddUpdatesInPlace ==
  [][(ret'.op = "addRemote" /\ ret'.existed) =>
       LET i == ExistingRemote(sources, ret'.key)
           q == CAMERA_CONSTRAINTS[ret'.arg.quality]
       IN  /\ ret'.outcome = "ok"
           /\ ret'.id = sources[i].id
           /\ Len(sources') = Len(sources)
           /\ sources'[i].id = sources[i].id
           /\ sources'[i].name = ret'.arg.name
           /\ sources'[i].width = q.width
           /\ sources'[i].height = q.height
           /\ sources'[i].fps = q.fps
           /\ Cardinality(EmitsOf(log', "camera-updated", ret'.id)) = 1
           /\ \A k \in AllEmits(log') : log'[k].name = "camera-updated"]_vars

\* C5: addRemoteCamera for a session that already has a remote source leaves
\* that source's status, stream, peer connection and errorCount as they were,
\* and touches no stream and no peer connection; a source re-added while
\* 'connecting' is still 'connecting'.
C5_ReAddKeepsConnectionState ==
  [][(ret'.op = "addRemote" /\ ret'.existed) =>
       LET i == ExistingRemote(sources, ret'.key) IN
       /\ Len(sources') = Len(sources)
       /\ sources'[i].status = sources[i].status
       /\ sources'[i].stream = sources[i].stream
       /\ sources'[i].peerConnection = sources[i].peerConnection
       /\ sources'[i].errorCount = sources[i].errorCount
       /\ streams' = streams
       /\ pcs' = pcs
       /\ statsIntervals' = statsIntervals]_vars

\* A connected remote source that holds a stream and has counted an error has
\* been re-added with a new name.
C5_Witness ==
  /\ ret.op = "addRemote" /\ ret.existed
  /\ Has(sources, ret.id)
  /\ Get(sources, ret.id).status = "connected"
  /\ Get(sources, ret.id).stream # 0
  /\ Get(sources, ret.id).errorCount > 0
  /\ Get(sources, ret.id).name = "n2"

\* C6: removeCamera on a registered id leaves the id absent from the registry,
\* no stats timer for the id running, the source's peer connection closed and
\* its tracks ended, emits exactly one 'camera-removed' for the id, and has
\* released every resource before it deletes the entry.
C6_RemoveReleasesEverything ==
  [][(ret'.op = "remove" /\ ret'.existed) =>
       LET id == ret'.id
           source == Get(sources, id)
           del == {k \in 1..Len(log') : log'[k].t = "fx" /\ log'[k].name = "delete"}
       IN  /\ ~Has(sources', id)
           /\ ~StatsHas(statsIntervals', id)
           /\ \A h \in 1..Len(intervals') : intervals'[h].sid = id => ~intervals'[h].live
           /\ source.peerConnection # 0 => pcs'[source.peerConnection].closed
           /\ source.stream # 0 => ~streams'[source.stream].live
           /\ Cardinality(EmitsOf(log', "camera-removed", id)) = 1
           /\ Cardinality(AllEmits(log')) = 1
           /\ Cardinality(del) = 1
           /\ \A k \in 1..Len(log') : \A d \in del :
                (log'[k].t = "fx" /\ log'[k].name # "delete") => k < d]_vars

\* C7: removeCamera on an id that is not in the registry returns normally,
\* emits nothing and changes neither the registry nor any timer, stream, peer
\* connection, suspended call or signaling state.
C7_RemoveAbsentIsNoOp ==
  [][(ret'.op = "remove" /\ ~ret'.existed) =>
       /\ ret'.outcome = "ok"
       /\ log' = <<>>
       /\ UNCHANGED <<sources, statsIntervals, intervals, streams, pcs, calls, sigVars>>]_vars

\* removeCamera has run on an id that was removed before, other sources
\* being registered.
C7_Witness ==
  /\ ret.op = "remove" /\ ~ret.existed
  /\ sources # <<>>
  /\ \E p \in 1..Len(pcs) : pcs[p].sid = ret.id /\ pcs[p].closed

\* C8: removal is final.  An id that is not in the registry, in particular
\* one that removeCamera has deleted, enters the registry only as the id of a
\* source that an add call creates in that step: no resumed updateCamera and no
\* callback puts an entry back.
C8_RemovalIsFinal ==
  [][\A id \in AllIds :
       (~Has(sources, id) /\ Has(sources', id)) =>
         (ret'.op \in {"addLocal", "addRemote"} /\ ret'.id = id /\ ~ret'.existed)]_vars

\* C9: updateCamera on an id that is not registered at the call throws, emits
\* no event and leaves the registry as it was; a call on a registered id that
\* completes stores the entry it read with the given fields replaced and all
\* other fields kept, touches no other entry, and emits exactly one
\* 'camera-updated' that carries the stored entry.
C9_UpdateMergesOrFails ==
  [][(ret'.op = "update" /\ ret'.outcome # "pending") =>
       IF ~ret'.existed
       THEN /\ ret'.outcome = "throw"
            /\ AllEmits(log') = {}
            /\ sources' = sources
            /\ statsIntervals' = statsIntervals
       ELSE ret'.outcome = "ok" =>
            /\ Has(sources', ret'.id)
            /\ LET e == Get(sources', ret'.id) IN
               /\ DOMAIN e = DOMAIN ret'.base \cup DOMAIN ret'.arg
               /\ \A f \in DOMAIN e :
                    e[f] = IF f \in DOMAIN ret'.arg THEN ret'.arg[f] ELSE ret'.base[f]
               /\ \A k \in AllEmits(log') :
                    log'[k].name = "camera-updated" /\ log'[k].sid = ret'.id /\ log'[k].src = e
            /\ Cardinality(AllEmits(log')) = 1
            /\ \A i \in 1..Len(sources) :
                 sources[i].id # ret'.id => Has(sources', sources[i].id)
                                            /\ Get(sources', sources[i].id) = sources[i]]_vars

\* updateCamera has renamed a registered local camera and kept its stream,
\* peer connection and geometry.
C9_Witness ==
  /\ ret.op = "update" /\ ret.outcome = "ok" /\ ret.existed
  /\ ret.arg = [name |-> "n2"]
  /\ ret.base.name = "n1"
  /\ Has(sources, ret.id)
  /\ Get(sources, ret.id).name = "n2"
  /\ Get(sources, ret.id).stream # 0
  /\ Get(sources, ret.id).width = 640

\* C10: when an update gives a source a new stream, the stream the entry held
\* until then has no live track when the new one is attached, and the entry
\* then holds the new stream and the new geometry.
C10_OldTracksStoppedBeforeAttach ==
  [][(ret'.op = "update" /\ ret'.outcome = "ok" /\ "stream" \in DOMAIN ret'.arg
      /\ Has(sources, ret'.id) /\ Has(sources', ret'.id)) =>
       LET old == Get(sources, ret'.id).stream
           e == Get(sources', ret'.id)
       IN  /\ e.stream = ret'.arg.stream
           /\ e.width = ret'.arg.width /\ e.height = ret'.arg.height /\ e.fps = ret'.arg.fps
           /\ (old # 0 /\ old # e.stream) => ~streams'[old].live]_vars

\* A socket opened / closed in the step (the events of onopen and onclose).
Opened(lg) == lg = <<Emit("connected", NoId, NoSource, 0)>>
Closed(lg) == lg = <<Emit("disconnected", NoId, NoSource, 0)>>

\* C11: the reconnect counter stays within 0..maxReconnectAttempts; an open
\* sets it to 0; a close that schedules a reconnect adds exactly 1 and a close
\* that schedules none leaves it; no step other than an open lowers it; and a
\* close at maxReconnectAttempts schedules no reconnect.
C11_ReconnectCounter ==
  [][/\ reconnectAttempts \in 0..maxReconnectAttempts
     /\ reconnectAttempts' \in 0..maxReconnectAttempts
     /\ Opened(log') => reconnectAttempts' = 0
     /\ ~Opened(log') => reconnectAttempts' >= reconnectAttempts
     /\ Closed(log') =>
          /\ Len(reconnectTimers') \in {Len(reconnectTimers), Len(reconnectTimers) + 1}
          /\ reconnectAttempts' - reconnectAttempts = Len(reconnectTimers') - Len(reconnectTimers)
          /\ reconnectAttempts = maxReconnectAttempts => reconnectTimers' = reconnectTimers
     /\ ~Closed(log') => Len(reconnectTimers') <= Len(reconnectTimers)]_vars

\* A socket has closed with the counter at its maximum, and no reconnect was
\* scheduled for it.
C11_Witness ==
  /\ Closed(log)
  /\ reconnectAttempts = maxReconnectAttempts
  /\ channel.closes = maxReconnectAttempts + 1
  /\ reconnectTimers = <<>>

\* C12: counting the closes since the last open, the k-th close schedules one
\* reconnect with delay BaseDelay * k for k up to maxReconnectAttempts, and
\* every later close schedules none.
C12_LinearBackoff ==
  [][Closed(log') =>
       IF channel'.closes <= maxReconnectAttempts
       THEN reconnectTimers' = Append(reconnectTimers, BaseDelay * channel'.closes)
       ELSE reconnectTimers' = reconnectTimers]_vars

\* After an open, five closes have scheduled reconnects with delays 2000 to
\* 10000 (the last one still pending) and the sixth close has scheduled none.
C12_Witness ==
  /\ Closed(log)
  /\ channel.opened
  /\ channel.closes = maxReconnectAttempts + 1
  /\ reconnectTimers = <<BaseDelay * maxReconnectAttempts>>

\* C13: once the retry budget is used up (the counter is at its maximum), a
\* close schedules no reconnect as long as the application has not called
\* connect() again; and the close of a socket that the application connected
\* explicitly schedules a reconnect, the budget being available again.
C13_ExhaustionUntilExplicitConnect ==
  [][Closed(log') =>
       /\ (reconnectAttempts = maxReconnectAttempts /\ channel.last # "explicit")
            => reconnectTimers' = reconnectTimers
       /\ channel.last = "explicit"
            => Len(reconnectTimers') = Len(reconnectTimers) + 1]_vars

\* C14: from disconnect() until the application calls connect() again, no
\* step schedules a reconnect (not even the close of the socket that
\* disconnect() closed) and no reconnect timer opens a socket.
C14_NoReconnectAfterDisconnect ==
  [][channel.last = "disconnect" =>
       /\ Len(reconnectTimers') <= Len(reconnectTimers)
       /\ channel'.last # "timer"
       /\ (Len(sockets') > Len(sockets) => channel'.last = "explicit")]_vars

\* C15: when disconnect() returns the registry is empty; every source it
\* held has no stats timer left in the table, its timer cleared, its peer
\* connection closed and its tracks stopped; one 'camera-removed' was emitted
\* for each of them and nothing else; and isConnectedToSignaling() is false.
C15_DisconnectTearsDown ==
  [][ret'.op = "disconnect" =>
       /\ sources' = <<>>
       /\ statsIntervals' = <<>>
       /\ \A i \in 1..Len(sources) :
            LET e == sources[i] IN
            /\ StatsHas(statsIntervals, e.id) =>
                 ~intervals'[statsIntervals[StatsGet(statsIntervals, e.id)].h].live
            /\ e.peerConnection # 0 => pcs'[e.peerConnection].closed
            /\ e.stream # 0 => ~streams'[e.stream].live
            /\ Cardinality(EmitsOf(log', "camera-removed", e.id)) = 1
       /\ Cardinality(AllEmits(log')) = Len(sources)
       /\ ~isConnected'
       /\ signalingSocket' = 0]_vars

\* disconnect() has returned after removing a local camera and a remote
\* source that held a stream, on a channel whose socket it closed.
C15_Witness ==
  /\ ret.op = "disconnect"
  /\ sources = <<>>
  /\ \E i, j \in 1..Len(log) :
       /\ log[i].name = "camera-removed" /\ log[i].sid[1] = "local"
       /\ log[j].name = "camera-removed" /\ log[j].sid[1] = "remote"
  /\ \E s \in 1..Len(streams) : streams[s].by = "track" /\ ~streams[s].live
  /\ \E h \in 1..Len(sockets) : sockets[h] = "closing"

\* C16: the manager owns at most one signaling connection: at most one of
\* the sockets it created is opening or open (each of them has its handlers
\* attached).
C16_OneSignalingConnection ==
  Cardinality({h \in 1..Len(sockets) : sockets[h] \in {"connecting", "open"}}) <= 1

\* C17: sendSignalingMessage while the channel is not connected (no current
\* socket, or a current socket that is not open) returns normally, writes
\* nothing to a socket and changes neither the registry nor the connection.
C17_SendWhileNotConnectedDrops ==
  [][(ret'.op = "send" /\ (signalingSocket = 0 \/ sockets[signalingSocket] # "open")) =>
       /\ ret'.outcome = "ok"
       /\ log' = <<>>
       /\ UNCHANGED <<sources, statsIntervals, intervals, streams, pcs, calls, sigVars>>]_vars

\* C18: a malformed inbound message is dropped: no exception leaves the
\* message handler and the registry, with the resources of its sources, is as
\* it was; the sockets and the signaling state are untouched, so later
\* messages are dispatched as before.
C18_MalformedMessageDropped ==
  [][ret'.op = "malformed" =>
       /\ ret'.outcome = "ok"
       /\ sources' = sources
       /\ UNCHANGED <<statsIntervals, intervals, streams, pcs, calls, sigVars>>]_vars

\* C19: an 'ice-candidate' message whose sourceId names no source of the
\* registry is dropped: addIceCandidate settles without error, no event is
\* emitted and the registry, the peer connections and the signaling state are
\* as they were.
C19_CandidateForUnknownSourceDropped ==
  [][(ret'.op = "ice" /\ ~Has(sources, ret'.id)) =>
       /\ ret'.outcome = "dropped"
       /\ log' = <<>>
       /\ UNCHANGED <<sources, statsIntervals, intervals, streams, pcs, calls, sigVars>>]_vars

\* A candidate addressed by session id was dropped while a source of that
\* session is registered under its own id.
C19_Witness ==
  /\ ret.op = "ice" /\ ret.outcome = "dropped"
  /\ ~Has(sources, ret.id)
  /\ \E i \in 1..Len(sources) : sources[i].deviceId = ret.id[2]

\* C20: an 'ice-candidate' that arrives for a registered source before its
\* remote description is applied raises no error and is not lost: once the
\* remote description is set, every candidate handed to the peer connection
\* has been applied.
C20_EarlyCandidateKept ==
  /\ [][(/\ ret'.op = "ice" /\ ret'.existed
         /\ ~pcs[IceSource(sources, ret'.id)].closed
         /\ pcs[IceSource(sources, ret'.id)].remote # "set")
        => ret'.outcome # "rejected"]_vars
  /\ [](\A p \in 1..Len(pcs) :
          (pcs[p].remote = "set" /\ ~pcs[p].closed) => pcs[p].candidates = pcs[p].received)

\* The status changes of the source lifecycle, besides the change to 'error'
\* from any status and the return of a remote source from 'disconnected' to
\* 'connecting'.
StatusSteps ==
  {<<"connecting", "connected">>, <<"connecting", "disconnected">>,
   <<"connected", "disconnected">>}

\* The registry entries that are the same source object before and after a
\* step (same id, same peer connection) and whose status the step changed.
StatusChanges(before, after) ==
  {i \in 1..Len(before) :
     /\ Has(after, before[i].id)
     /\ Get(after, before[i].id).peerConnection = before[i].peerConnection
     /\ Get(after, before[i].id).status # before[i].status}

\* C21: every change of a source's status is connecting -> connected,
\* connecting -> disconnected, connected -> disconnected, disconnected ->
\* connecting for a remote source, or a change to 'error'.
C21_StatusChangesFollowLifecycle ==
  [][\A i \in StatusChanges(sources, sources') :
       LET from == sources[i].status
           to == Get(sources', sources[i].id).status IN
       \/ to = "error"
       \/ <<from, to>> \in StatusSteps
       \/ (from = "disconnected" /\ to = "connecting" /\ sources[i].type = "remote")]_vars

\* C22: a source whose status is 'error' keeps that status under every later
\* message, transport event and re-add of its key, for as long as it stays in
\* the registry.
C22_ErrorIsFinal ==
  [][\A i \in StatusChanges(sources, sources') : sources[i].status # "error"]_vars

\* C23: when the peer connection of a registered source reports 'connected',
\* the source becomes 'connected' and 'camera-connected' is emitted for it;
\* when it then reports 'failed', the source ends 'disconnected' and
\* 'camera-disconnected' is emitted for it.
C23_ConnectedThenFailedEndsDisconnected ==
  [][\A p \in 1..Len(pcs) :
       LET sid == pcs[p].sid IN
       /\ (pcs[p].state # "connected" /\ pcs'[p].state = "connected" /\ Has(sources, sid)) =>
            /\ Get(sources', sid).status = "connected"
            /\ EmitsOf(log', "camera-connected", sid) # {}
       /\ (pcs[p].state = "connected" /\ pcs'[p].state = "failed" /\ Has(sources, sid)) =>
            /\ Get(sources', sid).status = "disconnected"
            /\ EmitsOf(log', "camera-disconnected", sid) # {}
            /\ EmitsOf(log', "camera-connected", sid) = {}]_vars

\* A registered source whose transport went from 'connected' to 'failed'.
C23_Witness ==
  \E p \in 1..Len(pcs) :
    /\ pcs[p].state = "failed" /\ pcs[p].was = "connected"
    /\ Has(sources, pcs[p].sid)
    /\ Get(sources, pcs[p].sid).status = "disconnected"
    /\ EmitsOf(log, "camera-disconnected", pcs[p].sid) # {}

\* C24: a running stats timer belongs to an id that is in the registry with
\* status 'connected': no timer outlives its source or runs for a source that
\* is not connected.
C24_StatsTimerOnlyForConnectedSource ==
  \A i \in 1..Len(intervals) :
    intervals[i].live =>
      /\ Has(sources, intervals[i].sid)
      /\ Get(sources, intervals[i].sid).status = "connected"

\* C25: the errorCount of a source never decreases while the source is in the
\* registry, whatever ICE errors, status changes, re-adds and updateCamera
\* calls occur.
C25_ErrorCountNeverDecreases ==
  [][\A i \in 1..Len(sources) :
       Has(sources', sources[i].id) =>
         Get(sources', sources[i].id).errorCount >= sources[i].errorCount]_vars

\* C26: a source id is never reused.  Every source is created together with
\* a peer connection of its own, kept in pcs under the source's id after the
\* source is gone, so no two peer connections ever carry the same id.
C26_SourceIdNeverReused ==
  \A p, q \in 1..Len(pcs) : p # q => pcs[p].sid # pcs[q].sid

\* C27: a list returned by getAllCameras, getLocalCameras or getRemoteCameras
\* is a snapshot: it holds exactly the registry entries of its kind at the
\* time of the call, and additions and removals afterwards leave its
\* membership as it was.
C27_ListingsAreSnapshots ==
  \A c \in 1..MaxCalls :
    calls[c].op = "list" => Items(calls[c].list) = calls[c].at

\* A kept list of all cameras whose registry has since lost its only entry
\* or gained others.
C27_Witness ==
  \E c \in 1..MaxCalls :
    /\ calls[c].op = "list" /\ calls[c].which = "all"
    /\ calls[c].at # <<>>
    /\ calls[c].at # ValuesOf(sources)

\* The suspended calls of operation `op` for source id that come to an end in
\* a step.
Resumed(op, id, before, after) ==
  {c \in 1..MaxCalls : before[c].op = op /\ before[c].sid = id /\ after[c] = Idle}

\* C28: an updateCamera or handleIncomingOffer call that resumes after its
\* source was removed changes nothing in the registry and emits no
\* 'camera-updated', 'camera-connected' or 'camera-error' for the id.
C28_ResumedCallLeavesRemovedSourceAlone ==
  [][(/\ ret'.op \in {"update", "offer"}
      /\ Resumed(ret'.op, ret'.id, calls, calls') # {}
      /\ ~Has(sources, ret'.id))
     => /\ sources' = sources
        /\ statsIntervals' = statsIntervals
        /\ \A name \in {"camera-updated", "camera-connected", "camera-error"} :
             EmitsOf(log', name, ret'.id) = {}]_vars

\* C29: an updateCamera call that completes leaves in the registry entry the
\* status and errorCount the source had just before the completing step,
\* changes made by callbacks during its suspension included, unless the
\* update named the field.
C29_ConcurrentChangesSurviveUpdate ==
  [][(ret'.op = "update" /\ ret'.outcome = "ok" /\ Has(sources, ret'.id)) =>
       \A f \in {"status", "errorCount"} \ DOMAIN ret'.arg :
         Get(sources', ret'.id)[f] = Get(sources, ret'.id)[f]]_vars

\* C30: an 'answer' or 'offer' message whose sourceId matches no registered
\* source, or a source without a peer connection, ends without an uncaught
\* exception and without an unhandled rejection, and changes no source and
\* nothing of the signaling state, so later messages are dispatched as before.
C30_UnmatchedAnswerOrOfferIsContained ==
  [][(ret'.op \in {"answer", "offer"} /\ ~ret'.existed) =>
       /\ ret'.outcome \notin {"throw", "unhandled"}
       /\ UNCHANGED <<sources, statsIntervals, intervals, streams, pcs, calls, sigVars>>]_vars

\* The 'answer' messages written to the socket in a step, in order.
AnswersSent(lg) == SelectSeq(lg, LAMBDA e : e.t = "send" /\ e.name = "answer")

\* C31: an offer for the session of a registered remote source is applied as
\* remote description, then answered and the answer set as local description,
\* and only then, signaling being connected, exactly one 'answer' for that
\* session is sent; nothing else sends an answer, and an offer without a
\* matching source sends none.
C31_OfferIsAnsweredOnce ==
  [][/\ (ret'.op = "offer" /\ ret'.outcome = "ok") =>
          \E c \in Resumed("offer", ret'.id, calls, calls') :
            /\ calls[c].stage = 3
            /\ pcs[calls[c].pc].remote = "set"
            /\ pcs'[calls[c].pc].gathering
            /\ AnswersSent(log') =
                 IF SendOutcome = "sent" THEN <<Sent("answer", calls[c].ref)>> ELSE <<>>
     /\ AnswersSent(log') # <<>> => (ret'.op = "offer" /\ ret'.outcome = "ok")
     /\ (ret'.op = "offer" /\ ret'.outcome = "dropped") =>
          {i \in 1..Len(log') : log'[i].t = "send"} = {}]_vars

\* An offer for a registered remote source has just been answered on the
\* open socket.
C31_Witness ==
  /\ ret.op = "offer" /\ ret.outcome = "ok"
  /\ Has(sources, ret.id) /\ Get(sources, ret.id).type = "remote"
  /\ AnswersSent(log) = <<Sent("answer", KeyRef(ret.key))>>
  /\ pcs[Get(sources, ret.id).peerConnection].remote = "set"

\* C32: when applying an offer or producing or applying its answer fails for
\* a registered remote source, the source's status becomes 'error', a
\* 'camera-error' event is emitted for it and no answer is sent; the failure
\* stays inside handleIncomingOffer.
C32_FailedOfferReportsError ==
  [][(ret'.op = "offer" /\ ret'.outcome = "error" /\ Has(sources, ret'.id)) =>
       /\ Has(sources', ret'.id)
       /\ Get(sources', ret'.id).status = "error"
       /\ EmitsOf(log', "camera-error", ret'.id) # {}
       /\ AnswersSent(log') = <<>>]_vars

\* The peer connections that can have surfaced the inbound stream a step
\* added: the open receiving connections of the stream's session.
TrackOrigins(before, after) ==
  IF Len(after) = Len(before) + 1 /\ after[Len(after)].by = "track"
  THEN {p \in 1..Len(pcs) :
          ~pcs[p].closed /\ ~pcs[p].sender /\ pcs[p].sid[2] = after[Len(after)].dev}
  ELSE {}

\* C33: an inbound track with a stream on the peer connection of a registered
\* remote source makes that stream the source's stream, sets the status to
\* 'connected' and emits 'camera-connected' with that stream; for an id that
\* is not in the registry the registry stays as it was and nothing is emitted.
C33_InboundTrackConnectsSource ==
  [][\A p \in TrackOrigins(streams, streams') :
       LET sid == pcs[p].sid
           stream == Len(streams') IN
       IF Has(sources, sid)
       THEN /\ Get(sources', sid).stream = stream
            /\ Get(sources', sid).status = "connected"
            /\ \E i \in EmitsOf(log', "camera-connected", sid) : log'[i].stream = stream
       ELSE sources' = sources /\ log' = <<>>]_vars

\* A remote source holds the stream its peer connection surfaced, and the
\* step announced it.
C33_Witness ==
  \E i \in 1..Len(sources) :
    /\ sources[i].type = "remote" /\ sources[i].status = "connected"
    /\ sources[i].stream # 0 /\ streams[sources[i].stream].by = "track"
    /\ \E j \in EmitsOf(log, "camera-connected", sources[i].id) :
         log[j].stream = sources[i].stream

\* The status the specification gives for a connection state.
MappedStatus(state, status) ==
  CASE state = "connected" -> "connected"
    [] state \in {"disconnected", "failed"} -> "disconnected"
    [] state = "connecting" -> "connecting"
    [] OTHER -> status

\* The open receiving peer connections whose connection state a step changed.
TransportChanges ==
  {p \in 1..Len(pcs) : ~pcs[p].closed /\ ~pcs[p].sender /\ pcs'[p].state # pcs[p].state}

\* C34: a connection-state change on a registered source maps 'connected' to
\* status 'connected', 'disconnected' and 'failed' to 'disconnected' and
\* 'connecting' to 'connecting'; 'new' and 'closed' leave the status as it
\* was; a change for an id that is not registered changes nothing.
C34_ConnectionStateMapsToStatus ==
  [][/\ \A p \in TransportChanges :
          IF Has(sources, pcs[p].sid)
          THEN Get(sources', pcs[p].sid).status =
                 MappedStatus(pcs'[p].state, Get(sources, pcs[p].sid).status)
          ELSE sources' = sources /\ log' = <<>>
     /\ \A i \in 1..Len(sources), state \in ConnectionStates :
          Get(StateChanged(Cur, sources[i], state).sources, sources[i].id).status =
            MappedStatus(state, sources[i].status)]_vars

\* A connected source whose transport fell back to 'new' is still connected.
C34_Witness ==
  \E p \in 1..Len(pcs) :
    /\ pcs[p].state = "new" /\ pcs[p].was = "connected"
    /\ Has(sources, pcs[p].sid)
    /\ Get(sources, pcs[p].sid).status = "connected"

\* The registered sources an ICE candidate error was reported for in a step:
\* those with a 'camera-error' event or a larger error count.
IceErrorsReported ==
  {i \in 1..Len(sources) :
     \/ EmitsOf(log', "camera-error", sources[i].id) # {}
     \/ /\ Has(sources', sources[i].id)
        /\ Get(sources', sources[i].id).errorCount > sources[i].errorCount}

\* C35: an ICE candidate error on a registered source raises its errorCount by
\* exactly one and emits one 'camera-error' for it; its status, stream, peer
\* connection and stats timer stay as they were.
C35_IceErrorOnlyCounts ==
  [][\A i \in IceErrorsReported :
       /\ Has(sources', sources[i].id)
       /\ Get(sources', sources[i].id) = [sources[i] EXCEPT !.errorCount = @ + 1]
       /\ Cardinality(EmitsOf(log', "camera-error", sources[i].id)) = 1
       /\ pcs' = pcs
       /\ statsIntervals' = statsIntervals
       /\ intervals' = intervals]_vars

\* A connected remote source with a stream has had an ICE candidate error
\* reported in the last step.
C35_Witness ==
  \E i \in 1..Len(sources) :
    /\ sources[i].errorCount = 1 /\ sources[i].type = "remote"
    /\ sources[i].status = "connected" /\ sources[i].stream # 0
    /\ EmitsOf(log, "camera-error", sources[i].id) # {}

\* The signaling messages a step handed to the socket.
MessagesSent(lg) == {i \in 1..Len(lg) : lg[i].t = "send"}

\* C36: every signaling message sent about a source ('create-session',
\* 'answer', 'ice-candidate') carries the correlation key of that source as
\* its sourceId, so that all messages about one remote source carry the same
\* sourceId.
C36_OutboundMessagesCarryCorrelationKey ==
  [][\A i \in MessagesSent(log') :
       \E j \in 1..Len(sources') :
         log'[i].sid = KeyRef(sources'[j].deviceId)]_vars

\* C37: after an event that sets the status of a source (here a transport
\* state change to 'connecting', 'connected', 'disconnected' or 'failed'), the
\* lastSeen of the source is not earlier than the time of the event.
C37_StatusEventRefreshesLastSeen ==
  [][\A p \in TransportChanges :
       (Has(sources, pcs[p].sid) /\ pcs'[p].state \in TransportStates) =>
         Get(sources', pcs[p].sid).lastSeen >= now]_vars

\* C38: when getUserMedia fails, addLocalCamera rejects and leaves nothing
\* behind: no registry entry, no stats timer, no stream or peer connection,
\* no 'camera-added' or 'camera-connected'; no local entry exists for the
\* device, so a later addLocalCamera for it inserts afresh.
C38_FailedCaptureLeavesNothing ==
  [][(ret'.op = "addLocal" /\ ret'.outcome = "throw") =>
       /\ sources' = sources
       /\ ~Has(sources', ret'.id)
       /\ \A i \in 1..Len(sources') :
            sources'[i].deviceId = ret'.key => sources'[i].type # "local"
       /\ statsIntervals' = statsIntervals /\ intervals' = intervals
       /\ streams' = streams /\ pcs' = pcs
       /\ AllEmits(log') = {}
       /\ \A c \in 1..MaxCalls : calls'[c] = Idle]_vars

\* addLocalCamera has just rejected.
C38_Witness ==
  ret.op = "addLocal" /\ ret.outcome = "throw" /\ ~Has(sources, ret.id)

\* The sockets whose close event a step delivered although they are not the
\* manager's current socket.
StaleCloses ==
  {h \in 1..Len(sockets) :
     /\ h # signalingSocket
     /\ sockets[h] # "closed" /\ sockets'[h] = "closed"
     /\ log' = <<Emit("disconnected", NoId, NoSource, 0)>>}

\* C39: the close event of a socket that is no longer the current one does
\* not set isConnected to false while the current socket is open, and does
\* not schedule a reconnect.
C39_StaleCloseIsIgnored ==
  [][StaleCloses # {} =>
       /\ (signalingSocket # 0 /\ sockets[signalingSocket] = "open" /\ isConnected)
            => isConnected'
       /\ reconnectTimers' = reconnectTimers]_vars

\* C40: a source with status 'connected' has a stream attached, and every
\* 'camera-connected' event carries the stream held by the registry entry of
\* its source, also when 'phone-connected' or a transport 'connected' event
\* arrives before any inbound track.
C40_ConnectedSourceHasStream ==
  /\ \A i \in 1..Len(sources) :
       sources[i].status = "connected" => sources[i].stream # 0
  /\ \A j \in AllEmits(log) :
       log[j].name = "camera-connected" =>
         /\ Has(sources, log[j].sid)
         /\ log[j].stream # 0
         /\ log[j].stream = Get(sources, log[j].sid).stream

====
